---- MODULE Spec2Model ----
(***************************************************************************)
(* RBAC permission evaluation of the Fiber backend (main.go): wildcard     *)
(* path matching, the static region registry, per-permission country       *)
(* resolution, the allowed-country set built by extractUser, the IsAllowed *)
(* decision and the requirePermission middleware around them.              *)
(*                                                                         *)
(* Go strings that the code splits or compares ignoring case (paths and    *)
(* country codes) are sequences of one-character strings.  Region names    *)
(* are only ever compared with == or used as map keys, so they are TLA+    *)
(* strings.                                                                *)
(***************************************************************************)
EXTENDS Integers, Sequences, FiniteSets, TLC

VARIABLES
  pattern, target, matched,     \* one call matchPath(pattern, target)
  country, perm, permitted,     \* one call isCountryPermitted(country, perm)
  roleStore,                    \* the "roles" collection: role_id -> document
  token,                        \* the Authorization header of the request
  claims,                       \* the claims parseToken returned
  user,                         \* the *User passed to IsAllowed
  req,                          \* the Requirement of the endpoint
  pc,                           \* where the request is in requirePermission
  verdict,                      \* what IsAllowed returned
  examined,                     \* permissions the scan of IsAllowed looked at
  status,                       \* HTTP status of the response, 0 before it
  handlerRan,                   \* c.Next() was called
  body,                         \* the JSON body of a response of the middleware
  endpoint,                     \* the gateway endpoint the client called
  inflight                      \* requests served side by side, each with its own
                                \* locals of requirePermission

vars == <<pattern, target, matched, country, perm, permitted,
          roleStore, token, claims, user, req, pc, verdict, examined,
          status, handlerRan, body, endpoint, inflight>>

None == "none"

-----------------------------------------------------------------------------
(* Bounds of the model *)

MaxStrLen == 3        \* length of the generated pattern / target strings
MaxTotalPerms == 2    \* permissions of one principal, over all its roles

-----------------------------------------------------------------------------
(* Go strings *)

UpperCase == <<"A","B","C","D","E","F","G","H","I","J","K","L","M",
               "N","O","P","Q","R","S","T","U","V","W","X","Y","Z">>
LowerCase == <<"a","b","c","d","e","f","g","h","i","j","k","l","m",
               "n","o","p","q","r","s","t","u","v","w","x","y","z">>

FoldTable ==
  [ch \in {UpperCase[i] : i \in 1..26} |->
     LowerCase[CHOOSE i \in 1..26 : UpperCase[i] = ch]]

UpperLetters == DOMAIN FoldTable

ToLower(ch) == IF ch \in UpperLetters THEN FoldTable[ch] ELSE ch

\* strings.EqualFold on ASCII strings
EqualFold(s, t) ==
  /\ Len(s) = Len(t)
  /\ \A i \in 1..Len(s) : ToLower(s[i]) = ToLower(t[i])

\* strings.Split(s, ":"): the segments between the colons; a string without
\* a colon (the empty string included) is one segment
RECURSIVE SplitFrom(_, _, _)
SplitFrom(s, i, cur) ==
  IF i > Len(s) THEN <<cur>>
  ELSE IF s[i] = ":" THEN <<cur>> \o SplitFrom(s, i + 1, <<>>)
  ELSE SplitFrom(s, i + 1, Append(cur, s[i]))

Split(s) == SplitFrom(s, 1, <<>>)

Star == <<"*">>

-----------------------------------------------------------------------------
(* matchPath *)

\* the loop  for i := range p  of matchPath, from index i on
RECURSIVE matchSegments(_, _, _)
matchSegments(p, t, i) ==
  IF i > Len(p) THEN TRUE
  ELSE IF p[i] # Star /\ ~EqualFold(p[i], t[i]) THEN FALSE
  ELSE matchSegments(p, t, i + 1)

\* matchPath comparing the segments with == instead of EqualFold
RECURSIVE matchSegmentsExact(_, _, _)
matchSegmentsExact(p, t, i) ==
  IF i > Len(p) THEN TRUE
  ELSE IF p[i] # Star /\ p[i] # t[i] THEN FALSE
  ELSE matchSegmentsExact(p, t, i + 1)

matchPath_Exact(pat, tgt) ==
  LET p == Split(pat)
      t == Split(tgt)
  IN  IF Len(p) # Len(t) THEN FALSE ELSE matchSegmentsExact(p, t, 1)

matchPath(pat, tgt) ==
  LET p == Split(pat)
      t == Split(tgt)
  IN  IF Len(p) # Len(t) THEN FALSE ELSE matchSegments(p, t, 1)

-----------------------------------------------------------------------------
(* contains, regionMap, isCountryPermitted *)

\* for _, v := range list { if EqualFold(v, target) || v == "*" { return true } }
RECURSIVE containsFrom(_, _, _)
containsFrom(list, tgt, i) ==
  IF i > Len(list) THEN FALSE
  ELSE IF EqualFold(list[i], tgt) \/ list[i] = Star THEN TRUE
  ELSE containsFrom(list, tgt, i + 1)

\* contains without the wildcard entry
RECURSIVE containsFoldFrom(_, _, _)
containsFoldFrom(list, tgt, i) ==
  IF i > Len(list) THEN FALSE
  ELSE IF EqualFold(list[i], tgt) THEN TRUE
  ELSE containsFoldFrom(list, tgt, i + 1)

contains_NoWildcard(list, tgt) == containsFoldFrom(list, tgt, 1)

\* contains comparing the entries with == instead of EqualFold
RECURSIVE containsExactFrom(_, _, _)
containsExactFrom(list, tgt, i) ==
  IF i > Len(list) THEN FALSE
  ELSE IF list[i] = tgt \/ list[i] = Star THEN TRUE
  ELSE containsExactFrom(list, tgt, i + 1)

contains_CaseSensitive(list, tgt) == containsExactFrom(list, tgt, 1)

\* contains taking `*` as the wildcard when it is the target, not the entry
RECURSIVE containsStarTargetFrom(_, _, _)
containsStarTargetFrom(list, tgt, i) ==
  IF i > Len(list) THEN FALSE
  ELSE IF EqualFold(list[i], tgt) \/ tgt = Star THEN TRUE
  ELSE containsStarTargetFrom(list, tgt, i + 1)

contains_StarInTarget(list, tgt) == containsStarTargetFrom(list, tgt, 1)

contains(list, tgt) == containsFrom(list, tgt, 1)

regionMap ==
  [
    AFRICA |-> <<
        <<"D","Z">>, <<"A","O">>, <<"B","J">>, <<"B","W">>, <<"B","F">>, <<"B","I">>,
        <<"C","V">>, <<"C","M">>, <<"C","F">>, <<"T","D">>, <<"K","M">>, <<"C","G">>,
        <<"C","D">>, <<"C","I">>, <<"D","J">>, <<"E","G">>, <<"G","Q">>, <<"E","R">>,
        <<"S","Z">>, <<"E","T">>, <<"G","A">>, <<"G","M">>, <<"G","H">>, <<"G","N">>,
        <<"G","W">>, <<"K","E">>, <<"L","S">>, <<"L","R">>, <<"L","Y">>, <<"M","G">>,
        <<"M","W">>, <<"M","L">>, <<"M","R">>, <<"M","U">>, <<"M","A">>, <<"M","Z">>,
        <<"N","A">>, <<"N","E">>, <<"N","G">>, <<"R","W">>, <<"S","T">>, <<"S","N">>,
        <<"S","C">>, <<"S","L">>, <<"S","O">>, <<"Z","A">>, <<"S","S">>, <<"S","D">>,
        <<"T","Z">>, <<"T","G">>, <<"T","N">>, <<"U","G">>, <<"E","H">>, <<"Z","M">>,
        <<"Z","W">> >>,
    ASIA |-> <<
        <<"A","F">>, <<"A","M">>, <<"A","Z">>, <<"B","H">>, <<"B","D">>, <<"B","T">>,
        <<"B","N">>, <<"K","H">>, <<"C","N">>, <<"C","Y">>, <<"G","E">>, <<"I","N">>,
        <<"I","D">>, <<"I","R">>, <<"I","Q">>, <<"I","L">>, <<"J","P">>, <<"J","O">>,
        <<"K","Z">>, <<"K","W">>, <<"K","G">>, <<"L","A">>, <<"L","B">>, <<"M","Y">>,
        <<"M","V">>, <<"M","N">>, <<"M","M">>, <<"N","P">>, <<"K","P">>, <<"O","M">>,
        <<"P","K">>, <<"P","S">>, <<"P","H">>, <<"Q","A">>, <<"R","U">>, <<"S","A">>,
        <<"S","G">>, <<"K","R">>, <<"L","K">>, <<"S","Y">>, <<"T","W">>, <<"T","J">>,
        <<"T","H">>, <<"T","L">>, <<"T","R">>, <<"T","M">>, <<"A","E">>, <<"U","Z">>,
        <<"V","N">>, <<"Y","E">> >>,
    EUROPE |-> <<
        <<"A","L">>, <<"A","D">>, <<"A","T">>, <<"B","Y">>, <<"B","E">>, <<"B","A">>,
        <<"B","G">>, <<"H","R">>, <<"C","Y">>, <<"C","Z">>, <<"D","K">>, <<"E","E">>,
        <<"F","I">>, <<"F","R">>, <<"D","E">>, <<"G","R">>, <<"H","U">>, <<"I","S">>,
        <<"I","E">>, <<"I","T">>, <<"L","V">>, <<"L","I">>, <<"L","T">>, <<"L","U">>,
        <<"M","T">>, <<"M","D">>, <<"M","C">>, <<"M","E">>, <<"N","L">>, <<"M","K">>,
        <<"N","O">>, <<"P","L">>, <<"P","T">>, <<"R","O">>, <<"S","M">>, <<"R","S">>,
        <<"S","K">>, <<"S","I">>, <<"E","S">>, <<"S","E">>, <<"C","H">>, <<"U","A">>,
        <<"U","K">>, <<"V","A">> >>,
    NORTH_AMERICA |-> <<
        <<"A","G">>, <<"B","S">>, <<"B","B">>, <<"B","Z">>, <<"C","A">>, <<"C","R">>,
        <<"C","U">>, <<"D","M">>, <<"D","O">>, <<"S","V">>, <<"G","D">>, <<"G","T">>,
        <<"H","T">>, <<"H","N">>, <<"J","M">>, <<"M","X">>, <<"N","I">>, <<"P","A">>,
        <<"K","N">>, <<"L","C">>, <<"V","C">>, <<"T","T">>, <<"U","S">> >>,
    SOUTH_AMERICA |-> <<
        <<"A","R">>, <<"B","O">>, <<"B","R">>, <<"C","L">>, <<"C","O">>, <<"E","C">>,
        <<"G","Y">>, <<"P","Y">>, <<"P","E">>, <<"S","R">>, <<"U","Y">>, <<"V","E">> >>,
    OCEANIA |-> <<
        <<"A","U">>, <<"F","J">>, <<"K","I">>, <<"M","H">>, <<"F","M">>, <<"N","R">>,
        <<"N","Z">>, <<"P","W">>, <<"P","G">>, <<"W","S">>, <<"S","B">>, <<"T","O">>,
        <<"T","V">>, <<"V","U">> >>,
    ANTARCTICA |-> <<
        <<"A","Q">> >>,
    GLOBAL |-> <<
        <<"*">> >>
  ]

GLOBAL == <<"G","L","O","B","A","L">>

\* the loop over perm.ExceptRegions of isCountryPermitted, from index i on
RECURSIVE exceptRegionsFrom(_, _, _)
exceptRegionsFrom(regions, c, i) ==
  IF i > Len(regions) THEN FALSE
  ELSE IF regions[i] \in DOMAIN regionMap /\ contains(regionMap[regions[i]], c)
       THEN TRUE
  ELSE exceptRegionsFrom(regions, c, i + 1)

\* the loop over perm.Regions of isCountryPermitted, from index i on
RECURSIVE regionsFrom(_, _, _)
regionsFrom(regions, c, i) ==
  IF i > Len(regions) THEN FALSE
  ELSE IF regions[i] = "*" \/ regions[i] = "GLOBAL" THEN TRUE
  ELSE IF regions[i] \in DOMAIN regionMap /\ contains(regionMap[regions[i]], c)
       THEN TRUE
  ELSE regionsFrom(regions, c, i + 1)

\* isCountryPermitted testing the inclusions before the exclusions
isCountryPermitted_InclusionFirst(c, p) ==
  IF contains(p.Countries, c) THEN TRUE
  ELSE IF regionsFrom(p.Regions, c, 1) THEN TRUE
  ELSE FALSE

\* isCountryPermitted whose region loop returns on the first region
isCountryPermitted_FirstRegion(c, p) ==
  IF contains(p.ExceptCountries, c) THEN FALSE
  ELSE IF exceptRegionsFrom(p.ExceptRegions, c, 1) THEN FALSE
  ELSE IF contains(p.Countries, c) THEN TRUE
  ELSE IF p.Regions = <<>> THEN FALSE
  ELSE regionsFrom(<<p.Regions[1]>>, c, 1)

\* isCountryPermitted denying when except_regions holds a name that is no
\* key of regionMap
isCountryPermitted_UnknownExcludes(c, p) ==
  IF contains(p.ExceptCountries, c) THEN FALSE
  ELSE IF \E i \in 1..Len(p.ExceptRegions) : p.ExceptRegions[i] \notin DOMAIN regionMap
       THEN FALSE
  ELSE IF exceptRegionsFrom(p.ExceptRegions, c, 1) THEN FALSE
  ELSE IF contains(p.Countries, c) THEN TRUE
  ELSE regionsFrom(p.Regions, c, 1)

\* isCountryPermitted taking the country GLOBAL as a member of every region
\* of regionMap
isCountryPermitted_GlobalInEveryRegion(c, p) ==
  IF contains(p.ExceptCountries, c) THEN FALSE
  ELSE IF exceptRegionsFrom(p.ExceptRegions, c, 1) THEN FALSE
  ELSE IF contains(p.Countries, c) THEN TRUE
  ELSE IF c = GLOBAL /\ \E i \in 1..Len(p.Regions) : p.Regions[i] \in DOMAIN regionMap
       THEN TRUE
  ELSE regionsFrom(p.Regions, c, 1)

\* isCountryPermitted looking region names up without regard to letter case
isCountryPermitted_RegionNamesFolded(c, p) ==
  LET upper == [asia |-> "ASIA", europe |-> "EUROPE", global |-> "GLOBAL"]
      fold(names) == [i \in 1..Len(names) |->
                        IF names[i] \in DOMAIN upper THEN upper[names[i]] ELSE names[i]]
  IN  IF contains(p.ExceptCountries, c) THEN FALSE
      ELSE IF exceptRegionsFrom(fold(p.ExceptRegions), c, 1) THEN FALSE
      ELSE IF contains(p.Countries, c) THEN TRUE
      ELSE regionsFrom(fold(p.Regions), c, 1)

isCountryPermitted(c, p) ==
  IF contains(p.ExceptCountries, c) THEN FALSE
  ELSE IF exceptRegionsFrom(p.ExceptRegions, c, 1) THEN FALSE
  ELSE IF contains(p.Countries, c) THEN TRUE
  ELSE regionsFrom(p.Regions, c, 1)

-----------------------------------------------------------------------------
(* IsAllowed *)

\* for _, exPath := range perm.ExceptPaths { if matchPath(exPath, req.Path) ... }
RECURSIVE exceptPathsFrom(_, _, _)
exceptPathsFrom(exPaths, path, k) ==
  IF k > Len(exPaths) THEN FALSE
  ELSE IF matchPath(exPaths[k], path) THEN TRUE
  ELSE exceptPathsFrom(exPaths, path, k + 1)

\* the inner loop passing on to the next permission when an except_paths
\* entry matches, instead of returning false
RECURSIVE scanPermissions_VetoIsLocal(_, _, _)
scanPermissions_VetoIsLocal(perms, r, j) ==
  IF j > Len(perms) THEN [res |-> "next", n |-> 0]
  ELSE IF ~exceptPathsFrom(perms[j].ExceptPaths, r.Path, 1)
          /\ matchPath(perms[j].Path, r.Path)
          /\ isCountryPermitted(r.Country, perms[j])
       THEN [res |-> "allow", n |-> 1]
  ELSE LET rest == scanPermissions_VetoIsLocal(perms, r, j + 1)
       IN  [res |-> rest.res, n |-> rest.n + 1]

\* the inner loop returning false when a permission that matches the path
\* excludes the country
RECURSIVE scanPermissions_ExclusionVetoes(_, _, _)
scanPermissions_ExclusionVetoes(perms, r, j) ==
  IF j > Len(perms) THEN [res |-> "next", n |-> 0]
  ELSE IF exceptPathsFrom(perms[j].ExceptPaths, r.Path, 1)
       THEN [res |-> "deny", n |-> 1]
  ELSE IF matchPath(perms[j].Path, r.Path)
          /\ (contains(perms[j].ExceptCountries, r.Country)
                \/ exceptRegionsFrom(perms[j].ExceptRegions, r.Country, 1))
       THEN [res |-> "deny", n |-> 1]
  ELSE IF matchPath(perms[j].Path, r.Path) /\ isCountryPermitted(r.Country, perms[j])
       THEN [res |-> "allow", n |-> 1]
  ELSE LET rest == scanPermissions_ExclusionVetoes(perms, r, j + 1)
       IN  [res |-> rest.res, n |-> rest.n + 1]

\* The inner loop  for _, perm := range role.Permissions  from index j on.
\* res is "deny" / "allow" when the loop body returned false / true and
\* "next" when the loop ran out; n counts the permissions the body looked at.
RECURSIVE scanPermissions(_, _, _)
scanPermissions(perms, r, j) ==
  IF j > Len(perms) THEN [res |-> "next", n |-> 0]
  ELSE IF exceptPathsFrom(perms[j].ExceptPaths, r.Path, 1)
       THEN [res |-> "deny", n |-> 1]
  ELSE IF matchPath(perms[j].Path, r.Path) /\ isCountryPermitted(r.Country, perms[j])
       THEN [res |-> "allow", n |-> 1]
  ELSE LET rest == scanPermissions(perms, r, j + 1)
       IN  [res |-> rest.res, n |-> rest.n + 1]

\* the outer loop looking at the first role only
scanRoles_FirstRoleOnly(roles, r, i) ==
  IF i > Len(roles) THEN [res |-> "next", n |-> 0]
  ELSE scanPermissions(roles[i].Permissions, r, 1)

\* the outer loop scanning the roles from the last one to the first
RECURSIVE scanRoles_LastFirst(_, _, _)
scanRoles_LastFirst(roles, r, i) ==
  IF i > Len(roles) THEN [res |-> "next", n |-> 0]
  ELSE LET here == scanPermissions(roles[Len(roles) + 1 - i].Permissions, r, 1)
       IN  IF here.res # "next" THEN here
           ELSE LET rest == scanRoles_LastFirst(roles, r, i + 1)
                IN  [res |-> rest.res, n |-> here.n + rest.n]

\* The outer loop  for _, role := range user.Roles  from index i on; "next"
\* when it ran out of roles.
RECURSIVE scanRoles(_, _, _)
scanRoles(roles, r, i) ==
  IF i > Len(roles) THEN [res |-> "next", n |-> 0]
  ELSE LET here == scanPermissions(roles[i].Permissions, r, 1)
       IN  IF here.res # "next" THEN here
           ELSE LET rest == scanRoles(roles, r, i + 1)
                IN  [res |-> rest.res, n |-> here.n + rest.n]

\* IsAllowed that grants when no permission decided
IsAllowedRun_DefaultAllow(u, r) ==
  IF ~contains(u.AllowedCountries, r.Country) /\ r.Country # GLOBAL
  THEN [allowed |-> FALSE, examined |-> 0]
  ELSE LET s == scanRoles(u.Roles, r, 1)
       IN  [allowed |-> (s.res # "deny"), examined |-> s.n]

\* IsAllowed without the country pre-check
IsAllowedRun_NoPrecheck(u, r) ==
  LET s == scanRoles(u.Roles, r, 1)
  IN  [allowed |-> (s.res = "allow"), examined |-> s.n]

\* IsAllowed whose pre-check has no exemption for GLOBAL
IsAllowedRun_NoBypass(u, r) ==
  IF ~contains(u.AllowedCountries, r.Country)
  THEN [allowed |-> FALSE, examined |-> 0]
  ELSE LET s == scanRoles(u.Roles, r, 1)
       IN  [allowed |-> (s.res = "allow"), examined |-> s.n]

\* IsAllowed with the number of permissions it examined: the pre-check, the
\* two loops, and the final  return false
IsAllowedRun(u, r) ==
  IF ~contains(u.AllowedCountries, r.Country) /\ r.Country # GLOBAL
  THEN [allowed |-> FALSE, examined |-> 0]
  ELSE LET s == scanRoles(u.Roles, r, 1)
       IN  [allowed |-> (s.res = "allow"), examined |-> s.n]

IsAllowed(u, r) == IsAllowedRun(u, r).allowed

-----------------------------------------------------------------------------
(* extractUser *)

NotFound == [RoleID |-> "", Permissions |-> <<>>, found |-> FALSE]
NoUser == [ID |-> "", AllowedCountries |-> <<>>, Roles |-> <<>>]

Range(s) == {s[i] : i \in 1..Len(s)}

\* the region loop with only the literal GLOBAL taken as universal
RECURSIVE addRegions_GlobalOnly(_, _, _)
addRegions_GlobalOnly(countrySet, regions, i) ==
  IF i > Len(regions) THEN countrySet
  ELSE IF regions[i] = "GLOBAL"
       THEN addRegions_GlobalOnly(countrySet \cup {Star}, regions, i + 1)
  ELSE IF regions[i] \in DOMAIN regionMap /\ regions[i] # "GLOBAL"
       THEN addRegions_GlobalOnly(countrySet \cup Range(regionMap[regions[i]]),
                                  regions, i + 1)
  ELSE addRegions_GlobalOnly(countrySet, regions, i + 1)

\* for _, r := range perm.Regions { ... countrySet[...] = struct{}{} }
RECURSIVE addRegions(_, _, _)
addRegions(countrySet, regions, i) ==
  IF i > Len(regions) THEN countrySet
  ELSE IF regions[i] = "GLOBAL" \/ regions[i] = "*"
       THEN addRegions(countrySet \cup {Star}, regions, i + 1)
  ELSE IF regions[i] \in DOMAIN regionMap
       THEN addRegions(countrySet \cup Range(regionMap[regions[i]]), regions, i + 1)
  ELSE addRegions(countrySet, regions, i + 1)

\* the country set without the  for _, c := range perm.Countries  loop
RECURSIVE addPermissions_NoCountries(_, _, _)
addPermissions_NoCountries(countrySet, perms, j) ==
  IF j > Len(perms) THEN countrySet
  ELSE addPermissions_NoCountries(addRegions(countrySet, perms[j].Regions, 1),
                                  perms, j + 1)

\* for _, perm := range role.Permissions { regions; countries }
RECURSIVE addPermissions(_, _, _)
addPermissions(countrySet, perms, j) ==
  IF j > Len(perms) THEN countrySet
  ELSE addPermissions(addRegions(countrySet, perms[j].Regions, 1)
                        \cup Range(perms[j].Countries),
                      perms, j + 1)

\* for c := range countrySet { countries = append(countries, c) }
\* Go leaves the iteration order of a map open; the list is only ever read
\* by contains, which does not depend on the order, so one order is taken.
RECURSIVE SetToSeq(_)
SetToSeq(S) ==
  IF S = {} THEN <<>>
  ELSE LET x == CHOOSE x \in S : TRUE IN <<x>> \o SetToSeq(S \ {x})

\* the lookup loop passing over a role the collection does not hold
RECURSIVE resolveRoles_SkipMissing(_, _, _, _, _)
resolveRoles_SkipMissing(roleIDs, store, i, roles, countrySet) ==
  IF i > Len(roleIDs)
  THEN [err |-> FALSE, roles |-> roles, countries |-> SetToSeq(countrySet)]
  ELSE IF ~store[roleIDs[i]].found
       THEN resolveRoles_SkipMissing(roleIDs, store, i + 1, roles, countrySet)
  ELSE LET role == [RoleID |-> store[roleIDs[i]].RoleID,
                    Permissions |-> store[roleIDs[i]].Permissions]
       IN  resolveRoles_SkipMissing(roleIDs, store, i + 1, Append(roles, role),
                                    addPermissions(countrySet, role.Permissions, 1))

\* the lookup loop starting the country set afresh for every role
RECURSIVE resolveRoles_LastRoleCountries(_, _, _, _, _)
resolveRoles_LastRoleCountries(roleIDs, store, i, roles, countrySet) ==
  IF i > Len(roleIDs)
  THEN [err |-> FALSE, roles |-> roles, countries |-> SetToSeq(countrySet)]
  ELSE IF ~store[roleIDs[i]].found
       THEN [err |-> TRUE, roles |-> <<>>, countries |-> <<>>]
  ELSE LET role == [RoleID |-> store[roleIDs[i]].RoleID,
                    Permissions |-> store[roleIDs[i]].Permissions]
       IN  resolveRoles_LastRoleCountries(roleIDs, store, i + 1, Append(roles, role),
                                          addPermissions({}, role.Permissions, 1))

\* the lookup loop  for _, roleID := range roleIDs  from index i on
RECURSIVE resolveRoles(_, _, _, _, _)
resolveRoles(roleIDs, store, i, roles, countrySet) ==
  IF i > Len(roleIDs)
  THEN [err |-> FALSE, roles |-> roles, countries |-> SetToSeq(countrySet)]
  ELSE IF ~store[roleIDs[i]].found
       THEN [err |-> TRUE, roles |-> <<>>, countries |-> <<>>]
  ELSE LET role == [RoleID |-> store[roleIDs[i]].RoleID,
                    Permissions |-> store[roleIDs[i]].Permissions]
       IN  resolveRoles(roleIDs, store, i + 1, Append(roles, role),
                        addPermissions(countrySet, role.Permissions, 1))

\* claims["roles"] entries that are strings, in order
RECURSIVE stringRoleIDs(_, _)
stringRoleIDs(rolesIface, i) ==
  IF i > Len(rolesIface) THEN <<>>
  ELSE IF rolesIface[i].isString
       THEN <<rolesIface[i].s>> \o stringRoleIDs(rolesIface, i + 1)
  ELSE stringRoleIDs(rolesIface, i + 1)

extractUser(cl, store) ==
  IF ~cl.hasUsername
  THEN [err |-> TRUE, user |-> NoUser,
        msg |-> "preferred_username missing or not a string in token"]
  ELSE IF ~cl.hasRoles
       THEN [err |-> TRUE, user |-> NoUser,
             msg |-> "roles claim missing or in wrong format"]
  ELSE LET r == resolveRoles(stringRoleIDs(cl.roles, 1), store, 1, <<>>, {})
       IN  IF r.err
           THEN [err |-> TRUE, user |-> NoUser,
                 msg |-> "permission check failed: could not resolve user roles"]
           ELSE [err |-> FALSE, msg |-> "",
                 user |-> [ID |-> cl.preferred_username,
                           AllowedCountries |-> r.countries,
                           Roles |-> r.roles]]

-----------------------------------------------------------------------------
(* requirePermission *)

\* fiber.Map{"error": ...}: the message, and the requirement path and role
\* identifier written into it, which no message of requirePermission holds
NoBody == [error |-> "", path |-> <<>>, roleID |-> ""]
ErrorBody(msg) == [error |-> msg, path |-> <<>>, roleID |-> ""]
AccessDenied == "Access denied. You do not have permission for this resource."

StatusUnauthorized == 401
StatusForbidden == 403
StatusOK == 200

\* parseToken: the claims of a well-formed Bearer token, an error otherwise
parseToken(tok) ==
  IF tok.authHeader = ""
  THEN [err |-> TRUE, msg |-> "missing Authorization header"]
  ELSE IF tok.authHeader # "Bearer <jwt>"
       THEN [err |-> TRUE, msg |-> "invalid Authorization header format"]
  ELSE IF ~tok.parsable THEN [err |-> TRUE, msg |-> "failed to parse token"]
  ELSE [err |-> FALSE, msg |-> ""]

-----------------------------------------------------------------------------
(* String literals of the source, the README and the seed data *)

Join3(a, b, c) == a \o <<":">> \o b \o <<":">> \o c
Join2(a, b) == a \o <<":">> \o b

hr == <<"h","r">>
payroll == <<"p","a","y","r","o","l","l">>
view == <<"v","i","e","w">>
admin == <<"a","d","m","i","n">>
items == <<"i","t","e","m","s">>
userSeg == <<"u","s","e","r">>

hr_payroll_view == Join3(hr, payroll, view)
hr_user_view == Join3(hr, userSeg, view)
admin_items_view == Join3(admin, items, view)
admin_items == Join2(admin, items)
hr_star_view == Join3(hr, Star, view)
hr_payroll_star == Join3(hr, payroll, Star)
star_star_star == Join3(Star, Star, Star)
HR_Payroll_View == Join3(<<"H","R">>, <<"P","a","y","r","o","l","l">>, <<"V","i","e","w">>)

TH == <<"T","H">>
MM == <<"M","M">>
US == <<"U","S">>
th == <<"t","h">>

Permission(path, regions, countries, exRegions, exCountries, exPaths) ==
  [Path |-> path, Regions |-> regions, Countries |-> countries,
   ExceptRegions |-> exRegions, ExceptCountries |-> exCountries,
   ExceptPaths |-> exPaths]

\* mongo-init.js
seedPayroll == Permission(hr_payroll_view, <<>>, <<TH>>, <<>>, <<>>, <<>>)
seedAdmin == Permission(star_star_star, <<"GLOBAL">>, <<>>, <<>>, <<>>, <<>>)
\* README, "Example Role Document"
readmePayroll == Permission(hr_payroll_view, <<"SEA">>, <<>>, <<>>, <<MM>>, <<>>)
\* further role documents the collection may hold
asiaPayroll == Permission(hr_payroll_view, <<"ASIA">>, <<>>, <<>>, <<MM>>, <<>>)
viewTH == Permission(hr_star_view, <<>>, <<TH>>, <<>>, <<>>, <<>>)
vetoPayroll == Permission(hr_payroll_view, <<>>, <<>>, <<>>, <<>>, <<hr_payroll_star>>)
starRegion == Permission(hr_payroll_view, <<"*">>, <<>>, <<>>, <<>>, <<>>)
globalCountry == Permission(hr_payroll_view, <<>>, <<GLOBAL>>, <<>>, <<>>, <<>>)
notAsia == Permission(HR_Payroll_View, <<"GLOBAL">>, <<>>, <<"ASIA">>, <<>>, <<>>)

PermCatalog ==
  {seedPayroll, seedAdmin, readmePayroll, asiaPayroll,
   viewTH, vetoPayroll, starRegion, globalCountry, notAsia}

ReqPaths == {hr_payroll_view, admin_items_view, admin_items}
ReqCountries == {TH, MM, US, GLOBAL, Star}
Requirements == [Path : ReqPaths, Country : ReqCountries]

\* the role ids of the stored documents, and one id without a document
RoleIDs == <<"user", "admin">>
RoleIDSet == Range(RoleIDs) \cup {"guest"}

-----------------------------------------------------------------------------
(* Inputs *)

PatternAlphabet == {"a", "A", "*", ":"}
TargetAlphabet == {"a", "b", "*", ":"}
Patterns == UNION {[1..n -> PatternAlphabet] : n \in 0..MaxStrLen}
Targets == UNION {[1..n -> TargetAlphabet] : n \in 0..MaxStrLen}

ZZ == <<"Z","Z">>     \* a code no region of regionMap lists
CountryArgs == {TH, th, MM, US, ZZ, GLOBAL, Star}
RegionLists == {<<>>, <<"GLOBAL">>, <<"*">>, <<"ASIA">>, <<"SEA">>, <<"asia">>,
                <<"ASIA", "GLOBAL">>, <<"SEA", "ASIA">>, <<"global">>}
CountryLists == {<<>>, <<TH>>, <<th>>, <<Star>>}
ExceptRegionLists == {<<>>, <<"ASIA">>, <<"GLOBAL">>, <<"*">>, <<"SEA">>,
                      <<"europe", "ASIA">>, <<"asia">>, <<"global">>}
ExceptCountryLists == {<<>>, <<MM>>, <<TH>>, <<th>>, <<Star>>}
GeoPermissions ==
  {Permission(hr_payroll_view, rs, cs, ers, ecs, <<>>) :
     rs \in RegionLists, cs \in CountryLists,
     ers \in ExceptRegionLists, ecs \in ExceptCountryLists}

NoPermission == Permission(<<>>, <<>>, <<>>, <<>>, <<>>, <<>>)

RECURSIVE Sum(_, _)
Sum(f, i) == IF i > Len(f) THEN 0 ELSE f[i] + Sum(f, i + 1)

\* how many permissions each role of a principal holds
Shapes ==
  {sh \in UNION {[1..m -> 0..MaxTotalPerms] : m \in 0..Len(RoleIDs)} :
     Sum(sh, 1) <= MaxTotalPerms}

RolesOf(sh, ps) ==
  [i \in 1..Len(sh) |->
     [RoleID |-> RoleIDs[i],
      Permissions |-> SubSeq(ps, Sum(SubSeq(sh, 1, i - 1), 1) + 1,
                                 Sum(SubSeq(sh, 1, i), 1))]]

RoleLists ==
  UNION {{RolesOf(sh, ps) : ps \in [1..Sum(sh, 1) -> PermCatalog]} : sh \in Shapes}

StoreOf(roles) ==
  [id \in RoleIDSet |->
     IF \E i \in 1..Len(roles) : roles[i].RoleID = id
     THEN LET i == CHOOSE i \in 1..Len(roles) : roles[i].RoleID = id
          IN  [RoleID |-> id, Permissions |-> roles[i].Permissions, found |-> TRUE]
     ELSE NotFound]

StringEntry(id) == [isString |-> TRUE, s |-> id]
NumberEntry == [isString |-> FALSE, s |-> ""]

ClaimsOf(entries) ==
  [hasUsername |-> TRUE, preferred_username |-> "alice",
   hasRoles |-> TRUE, roles |-> entries]
NoClaims ==
  [hasUsername |-> FALSE, preferred_username |-> "", hasRoles |-> FALSE, roles |-> <<>>]

BearerToken(cl) == [authHeader |-> "Bearer <jwt>", parsable |-> TRUE, claims |-> cl]

TokenOf(roles) ==
  BearerToken(ClaimsOf([i \in 1..Len(roles) |-> StringEntry(roles[i].RoleID)]))

\* mongo-init.js: the documents of the seeded roles collection
SeedRoles ==
  << [RoleID |-> "user",
      Permissions |-> <<Permission(Join3(hr, <<"p","r","o","f","i","l","e">>, view),
                                   <<"GLOBAL">>, <<>>, <<>>, <<>>, <<>>),
                        Permission(hr_user_view, <<"GLOBAL">>, <<>>, <<>>, <<>>, <<>>),
                        seedPayroll>>],
     [RoleID |-> "admin", Permissions |-> <<seedAdmin>>] >>

SeedTokens ==
  {BearerToken(ClaimsOf(<<StringEntry("user")>>)),
   BearerToken(ClaimsOf(<<StringEntry("admin")>>)),
   BearerToken(ClaimsOf(<<StringEntry("user"), StringEntry("admin")>>)),
   BearerToken(ClaimsOf(<<StringEntry("user"), StringEntry("guest")>>)),
   BearerToken(ClaimsOf(<<StringEntry("guest"), StringEntry("admin")>>)),
   BearerToken(ClaimsOf(<<StringEntry("guest")>>)),
   BearerToken(ClaimsOf(<<NumberEntry, StringEntry("admin")>>)),
   BearerToken(ClaimsOf(<<>>)),
   BearerToken([ClaimsOf(<<StringEntry("admin")>>) EXCEPT !.hasUsername = FALSE]),
   BearerToken([ClaimsOf(<<>>) EXCEPT !.hasRoles = FALSE]),
   [authHeader |-> "", parsable |-> FALSE, claims |-> NoClaims],
   [authHeader |-> "Basic abc", parsable |-> FALSE, claims |-> NoClaims],
   [authHeader |-> "Bearer <jwt>", parsable |-> FALSE, claims |-> NoClaims]}

\* main: the requirement of each protected route
RouteTable ==
  [url \in {"/user/profile", "/user", "/user/payroll", "/admin/items"} |->
     CASE url = "/user/profile" ->
            [Path |-> Join3(hr, <<"p","r","o","f","i","l","e">>, view), Country |-> GLOBAL]
       [] url = "/user" -> [Path |-> hr_user_view, Country |-> GLOBAL]
       [] url = "/user/payroll" -> [Path |-> hr_payroll_view, Country |-> TH]
       [] url = "/admin/items" -> [Path |-> admin_items_view, Country |-> GLOBAL]]

Routes == {RouteTable[url] : url \in DOMAIN RouteTable}

\* krakend.json with /payroll open to the roles /user is open to
Endpoints_PayrollForAdmin ==
  {[endpoint |-> "/profile", url_pattern |-> "/user/profile", roles |-> {"user", "admin"}],
   [endpoint |-> "/user", url_pattern |-> "/user", roles |-> {"user", "admin"}],
   [endpoint |-> "/admin", url_pattern |-> "/admin/items", roles |-> {"admin"}],
   [endpoint |-> "/payroll", url_pattern |-> "/user/payroll", roles |-> {"user", "admin"}]}

\* krakend.json: the endpoints that carry a JWT validator, with the backend
\* route each forwards to and the roles its validator asks for
Endpoints ==
  {[endpoint |-> "/profile", url_pattern |-> "/user/profile", roles |-> {"user", "admin"}],
   [endpoint |-> "/user", url_pattern |-> "/user", roles |-> {"user", "admin"}],
   [endpoint |-> "/admin", url_pattern |-> "/admin/items", roles |-> {"admin"}],
   [endpoint |-> "/payroll", url_pattern |-> "/user/payroll", roles |-> {"user"}]}

AllowedLists == {<<>>, <<th>>, <<Star>>}

-----------------------------------------------------------------------------
(* The middleware on one request *)

IdleCalls ==
  /\ pattern = <<>> /\ target = <<>> /\ matched = None
  /\ country = <<>> /\ perm = NoPermission /\ permitted = None

\* no request at the gateway and none served side by side
IdleGateway ==
  /\ endpoint = None
  /\ inflight = <<>>

IdleRequest ==
  /\ roleStore = StoreOf(<<>>)
  /\ token = BearerToken(NoClaims)
  /\ claims = NoClaims
  /\ status = 0
  /\ handlerRan = FALSE
  /\ body = NoBody
  /\ IdleGateway

Init ==
  /\ IdleCalls
  /\ \/ \E roles \in RoleLists :
          /\ roleStore = StoreOf(roles)
          /\ token = TokenOf(roles)
          /\ req \in Requirements
     \/ /\ roleStore = StoreOf(SeedRoles)
        /\ token \in SeedTokens
        /\ req \in Routes
  /\ pc = "parse"
  /\ claims = NoClaims
  /\ user = NoUser
  /\ verdict = None
  /\ examined = 0
  /\ status = 0
  /\ handlerRan = FALSE
  /\ body = NoBody
  /\ IdleGateway

\* claims, err := parseToken(c); 401 on error
ParseToken ==
  /\ pc = "parse"
  /\ IF parseToken(token).err
     THEN /\ status' = StatusUnauthorized
          /\ body' = ErrorBody(parseToken(token).msg)
          /\ pc' = "done"
          /\ UNCHANGED claims
     ELSE /\ claims' = token.claims
          /\ pc' = "extract"
          /\ UNCHANGED <<status, body>>
  /\ UNCHANGED <<pattern, target, matched, country, perm, permitted,
                 roleStore, token, user, req, verdict, examined, handlerRan,
                 endpoint, inflight>>

\* user, err := extractUser(claims); 403 on error
ExtractUser ==
  /\ pc = "extract"
  /\ LET r == extractUser(claims, roleStore)
     IN  IF r.err
         THEN /\ status' = StatusForbidden
              /\ body' = ErrorBody(r.msg)
              /\ pc' = "done"
              /\ UNCHANGED user
         ELSE /\ user' = r.user
              /\ pc' = "check"
              /\ UNCHANGED <<status, body>>
  /\ UNCHANGED <<pattern, target, matched, country, perm, permitted,
                 roleStore, token, claims, req, verdict, examined, handlerRan,
                 endpoint, inflight>>

\* the middleware calling c.Next() whatever IsAllowed returned
CheckAllowed_PassThrough ==
  /\ pc = "check"
  /\ LET run == IsAllowedRun(user, req)
     IN  /\ verdict' = IF run.allowed THEN "allow" ELSE "deny"
         /\ examined' = run.examined
  /\ status' = StatusOK
  /\ handlerRan' = TRUE
  /\ pc' = "done"
  /\ UNCHANGED <<pattern, target, matched, country, perm, permitted,
                 roleStore, token, claims, user, req, body, endpoint, inflight>>

\* the middleware whose IsAllowed call drops the roles of the *User it was
\* given once it has decided
CheckAllowed_ConsumesRoles ==
  /\ pc = "check"
  /\ LET run == IsAllowedRun(user, req)
     IN  /\ verdict' = IF run.allowed THEN "allow" ELSE "deny"
         /\ examined' = run.examined
         /\ status' = IF run.allowed THEN StatusOK ELSE StatusForbidden
         /\ body' = IF run.allowed THEN body ELSE ErrorBody(AccessDenied)
         /\ handlerRan' = run.allowed
  /\ user' = [user EXCEPT !.Roles = <<>>]
  /\ pc' = "done"
  /\ UNCHANGED <<pattern, target, matched, country, perm, permitted,
                 roleStore, token, claims, req, endpoint, inflight>>

\* if !IsAllowed(user, req) { 403 }; otherwise c.Next() runs the handler
CheckAllowed ==
  /\ pc = "check"
  /\ LET run == IsAllowedRun(user, req)
     IN  /\ verdict' = IF run.allowed THEN "allow" ELSE "deny"
         /\ examined' = run.examined
         /\ status' = IF run.allowed THEN StatusOK ELSE StatusForbidden
         /\ body' = IF run.allowed THEN body ELSE ErrorBody(AccessDenied)
         /\ handlerRan' = run.allowed
  /\ pc' = "done"
  /\ UNCHANGED <<pattern, target, matched, country, perm, permitted,
                 roleStore, token, claims, user, req, endpoint, inflight>>

Next == ParseToken \/ ExtractUser \/ CheckAllowed

Spec == Init /\ [][Next]_vars

-----------------------------------------------------------------------------
(* A request to one of the routes main registers: the requirement is the
   one the route passes to requirePermission, the principal is arbitrary *)

InitRoutes ==
  /\ IdleCalls
  /\ \E roles \in RoleLists :
       /\ roleStore = StoreOf(roles)
       /\ token = TokenOf(roles)
  /\ req \in Routes
  /\ pc = "parse"
  /\ claims = NoClaims
  /\ user = NoUser
  /\ verdict = None
  /\ examined = 0
  /\ status = 0
  /\ handlerRan = FALSE
  /\ body = NoBody
  /\ IdleGateway

SpecRoutes == InitRoutes /\ [][Next]_vars

-----------------------------------------------------------------------------
(* A request that enters through the gateway *)

\* the validator of the endpoint: the token must verify, and its roles claim
\* (roles_key "roles") must hold one of the roles the endpoint lists
validatorAccepts(tok) == tok.authHeader = "Bearer <jwt>" /\ tok.parsable
validatorHasRole(tok, ep) ==
  /\ tok.claims.hasRoles
  /\ \E i \in 1..Len(tok.claims.roles) :
       tok.claims.roles[i].isString /\ tok.claims.roles[i].s \in ep.roles

InitGateway ==
  /\ IdleCalls
  /\ roleStore = StoreOf(SeedRoles)
  /\ token \in SeedTokens
  /\ endpoint \in Endpoints
  /\ req = [Path |-> <<>>, Country |-> <<>>]
  /\ pc = "gateway"
  /\ claims = NoClaims
  /\ user = NoUser
  /\ verdict = None
  /\ examined = 0
  /\ status = 0
  /\ handlerRan = FALSE
  /\ body = NoBody
  /\ inflight = <<>>

\* the gateway answers 401 or 403 itself, or forwards the request with its
\* Authorization header to the backend route of the endpoint
GatewayValidate ==
  /\ pc = "gateway"
  /\ IF ~validatorAccepts(token)
     THEN /\ status' = StatusUnauthorized
          /\ pc' = "done"
          /\ UNCHANGED req
     ELSE IF ~validatorHasRole(token, endpoint)
          THEN /\ status' = StatusForbidden
               /\ pc' = "done"
               /\ UNCHANGED req
     ELSE /\ req' = RouteTable[endpoint.url_pattern]
          /\ pc' = "parse"
          /\ UNCHANGED status
  /\ UNCHANGED <<pattern, target, matched, country, perm, permitted,
                 roleStore, token, claims, user, verdict, examined, handlerRan,
                 body, endpoint, inflight>>

NextGateway == GatewayValidate \/ ParseToken \/ ExtractUser \/ CheckAllowed

SpecGateway == InitGateway /\ [][NextGateway]_vars

-----------------------------------------------------------------------------
-----------------------------------------------------------------------------
(* Requests served side by side *)

\* the requests the server handles at one time
Requests == {"r1", "r2"}

ConcurrentTokens ==
  {BearerToken(ClaimsOf(<<StringEntry("user")>>)),
   BearerToken(ClaimsOf(<<StringEntry("admin")>>)),
   BearerToken(ClaimsOf(<<StringEntry("user"), StringEntry("admin")>>)),
   BearerToken(ClaimsOf(<<StringEntry("user"), StringEntry("guest")>>)),
   BearerToken(ClaimsOf(<<NumberEntry, StringEntry("admin")>>)),
   BearerToken([ClaimsOf(<<>>) EXCEPT !.hasRoles = FALSE]),
   [authHeader |-> "", parsable |-> FALSE, claims |-> NoClaims]}

\* the locals of one running requirePermission(rq) handler and of the
\* extractUser call it makes
NewRequest(tok, rq) ==
  [token |-> tok, req |-> rq, pc |-> "parse", claims |-> NoClaims,
   roleIDs |-> <<>>, roles |-> <<>>, countrySet |-> {}, user |-> NoUser,
   verdict |-> None, status |-> 0, handlerRan |-> FALSE]

InitConcurrent ==
  /\ IdleCalls
  /\ roleStore = StoreOf(SeedRoles)
  /\ inflight \in [Requests -> {NewRequest(tok, rq) : tok \in ConcurrentTokens,
                                                      rq \in Routes}]
  /\ token = BearerToken(NoClaims)
  /\ claims = NoClaims
  /\ user = NoUser
  /\ req = [Path |-> <<>>, Country |-> <<>>]
  /\ pc = "serving"
  /\ verdict = None
  /\ examined = 0
  /\ status = 0
  /\ handlerRan = FALSE
  /\ body = NoBody
  /\ endpoint = None

\* the locals of request r after its parseToken call
parseTokenStep(fl, r) ==
  IF parseToken(fl[r].token).err
  THEN [fl[r] EXCEPT !.pc = "done", !.status = StatusUnauthorized]
  ELSE [fl[r] EXCEPT !.pc = "claims", !.claims = fl[r].token.claims]

\* the locals of request r after extractUser read the two claims
readClaimsStep(fl, r) ==
  IF ~fl[r].claims.hasUsername \/ ~fl[r].claims.hasRoles
  THEN [fl[r] EXCEPT !.pc = "done", !.status = StatusForbidden]
  ELSE [fl[r] EXCEPT !.pc = "lookup",
                     !.roleIDs = stringRoleIDs(fl[r].claims.roles, 1)]

\* the locals of request r after a FindOne, had roles been one slice of the
\* package that every request appends to
findOneStep_SharedRoles(fl, r, store) ==
  LET id == fl[r].roleIDs[Len(fl[r].roles) + 1]
      others == SetToSeq(Requests \ {r})
      shared == IF others = <<>> THEN <<>> ELSE fl[others[1]].roles
  IN  IF ~store[id].found
      THEN [fl[r] EXCEPT !.pc = "done", !.status = StatusForbidden,
                         !.roles = <<>>, !.countrySet = {}]
      ELSE LET role == [RoleID |-> store[id].RoleID,
                        Permissions |-> store[id].Permissions]
           IN  [fl[r] EXCEPT !.roles = Append(shared \o @, role),
                             !.roleIDs = [i \in 1..Len(shared) |-> shared[i].RoleID] \o @,
                             !.countrySet = addPermissions(@, role.Permissions, 1)]

\* the locals of request r after a FindOne, had the country set been
\* computed from a second read of every role looked up so far
findOneStep_RereadsStore(fl, r, store) ==
  LET n == Len(fl[r].roles) + 1
      id == fl[r].roleIDs[n]
  IN  IF ~store[id].found
      THEN [fl[r] EXCEPT !.pc = "done", !.status = StatusForbidden,
                         !.roles = <<>>, !.countrySet = {}]
      ELSE LET role == [RoleID |-> store[id].RoleID,
                        Permissions |-> store[id].Permissions]
           IN  [fl[r] EXCEPT !.roles = Append(@, role),
                             !.countrySet =
                               UNION {addPermissions({}, store[fl[r].roleIDs[k]].Permissions, 1)
                                      : k \in 1..n}]

\* the locals of request r after the FindOne of its next role identifier:
\* one pass of the loop  for _, roleID := range roleIDs
findOneStep(fl, r, store) ==
  LET id == fl[r].roleIDs[Len(fl[r].roles) + 1]
  IN  IF ~store[id].found
      THEN [fl[r] EXCEPT !.pc = "done", !.status = StatusForbidden,
                         !.roles = <<>>, !.countrySet = {}]
      ELSE LET role == [RoleID |-> store[id].RoleID,
                        Permissions |-> store[id].Permissions]
           IN  [fl[r] EXCEPT !.roles = Append(@, role),
                             !.countrySet = addPermissions(@, role.Permissions, 1)]

\* the locals of request r after extractUser returned its *User
buildUserStep(fl, r) ==
  [fl[r] EXCEPT !.pc = "check",
                !.user = [ID |-> fl[r].claims.preferred_username,
                          AllowedCountries |-> SetToSeq(fl[r].countrySet),
                          Roles |-> fl[r].roles]]

\* the locals of request r after IsAllowed and the 403 or c.Next()
checkAllowedStep(fl, r) ==
  LET allowed == IsAllowed(fl[r].user, fl[r].req)
  IN  [fl[r] EXCEPT !.pc = "done",
                    !.verdict = IF allowed THEN "allow" ELSE "deny",
                    !.status = IF allowed THEN StatusOK ELSE StatusForbidden,
                    !.handlerRan = allowed]

ServingVars == <<pattern, target, matched, country, perm, permitted, roleStore,
                 token, claims, user, req, pc, verdict, examined, status,
                 handlerRan, body, endpoint>>

ServeParseToken ==
  \E r \in DOMAIN inflight :
    /\ inflight[r].pc = "parse"
    /\ inflight' = [inflight EXCEPT ![r] = parseTokenStep(inflight, r)]
    /\ UNCHANGED ServingVars

ServeReadClaims ==
  \E r \in DOMAIN inflight :
    /\ inflight[r].pc = "claims"
    /\ inflight' = [inflight EXCEPT ![r] = readClaimsStep(inflight, r)]
    /\ UNCHANGED ServingVars

ServeFindOne ==
  \E r \in DOMAIN inflight :
    /\ inflight[r].pc = "lookup"
    /\ Len(inflight[r].roles) < Len(inflight[r].roleIDs)
    /\ inflight' = [inflight EXCEPT ![r] = findOneStep(inflight, r, roleStore)]
    /\ UNCHANGED ServingVars

ServeBuildUser ==
  \E r \in DOMAIN inflight :
    /\ inflight[r].pc = "lookup"
    /\ Len(inflight[r].roles) = Len(inflight[r].roleIDs)
    /\ inflight' = [inflight EXCEPT ![r] = buildUserStep(inflight, r)]
    /\ UNCHANGED ServingVars

ServeCheckAllowed ==
  \E r \in DOMAIN inflight :
    /\ inflight[r].pc = "check"
    /\ inflight' = [inflight EXCEPT ![r] = checkAllowedStep(inflight, r)]
    /\ UNCHANGED ServingVars

NextConcurrent ==
  \/ ServeParseToken
  \/ ServeReadClaims
  \/ ServeFindOne
  \/ ServeBuildUser
  \/ ServeCheckAllowed

SpecConcurrent == InitConcurrent /\ [][NextConcurrent]_vars

-----------------------------------------------------------------------------
(* The roles collection changing while a request is served *)

\* what another client of the database may put in place of a role document
OtherDocuments ==
  [id \in {"user", "admin"} |->
     {NotFound,
      IF id = "user"
      THEN [RoleID |-> id, Permissions |-> <<asiaPayroll>>, found |-> TRUE]
      ELSE [RoleID |-> id, Permissions |-> <<vetoPayroll, viewTH>>, found |-> TRUE]}]

InitStoreChanges ==
  /\ IdleCalls
  /\ roleStore = StoreOf(SeedRoles)
  /\ inflight \in [{"r1"} -> {NewRequest(tok, rq) : tok \in ConcurrentTokens,
                                                     rq \in Routes}]
  /\ token = BearerToken(NoClaims)
  /\ claims = NoClaims
  /\ user = NoUser
  /\ req = [Path |-> <<>>, Country |-> <<>>]
  /\ pc = "serving"
  /\ verdict = None
  /\ examined = 0
  /\ status = 0
  /\ handlerRan = FALSE
  /\ body = NoBody
  /\ endpoint = None

\* a role document is replaced or deleted in one write
StoreWrite ==
  /\ \E id \in DOMAIN OtherDocuments :
       \E doc \in OtherDocuments[id] \cup {StoreOf(SeedRoles)[id]} :
         /\ doc # roleStore[id]
         /\ roleStore' = [roleStore EXCEPT ![id] = doc]
  /\ UNCHANGED <<pattern, target, matched, country, perm, permitted,
                 token, claims, user, req, pc, verdict, examined, status,
                 handlerRan, body, endpoint, inflight>>

NextStoreChanges == NextConcurrent \/ StoreWrite

SpecStoreChanges == InitStoreChanges /\ [][NextStoreChanges]_vars

-----------------------------------------------------------------------------
(* IsAllowed called on an arbitrary *User *)

InitIsAllowed ==
  /\ IdleCalls
  /\ IdleRequest
  /\ user \in [ID : {"alice"}, AllowedCountries : AllowedLists, Roles : RoleLists]
  /\ req \in Requirements
  /\ pc = "call"
  /\ verdict = None
  /\ examined = 0

CallIsAllowed ==
  /\ pc = "call"
  /\ LET run == IsAllowedRun(user, req)
     IN  /\ verdict' = IF run.allowed THEN "allow" ELSE "deny"
         /\ examined' = run.examined
  /\ pc' = "returned"
  /\ UNCHANGED <<pattern, target, matched, country, perm, permitted,
                 roleStore, token, claims, user, req, status, handlerRan,
                 body, endpoint, inflight>>

SpecIsAllowed == InitIsAllowed /\ [][CallIsAllowed]_vars

-----------------------------------------------------------------------------
(* isCountryPermitted and matchPath called on their own *)

IdleDecision ==
  /\ IdleRequest
  /\ user = NoUser
  /\ req = [Path |-> <<>>, Country |-> <<>>]
  /\ pc = "call"
  /\ verdict = None
  /\ examined = 0

InitCountry ==
  /\ pattern = <<>> /\ target = <<>> /\ matched = None
  /\ country \in CountryArgs
  /\ perm \in GeoPermissions
  /\ permitted = None
  /\ IdleDecision

CallIsCountryPermitted ==
  /\ permitted = None
  /\ permitted' = IF isCountryPermitted(country, perm) THEN "true" ELSE "false"
  /\ UNCHANGED <<pattern, target, matched, country, perm,
                 roleStore, token, claims, user, req, pc, verdict, examined,
                 status, handlerRan, body, endpoint, inflight>>

SpecCountry == InitCountry /\ [][CallIsCountryPermitted]_vars

InitMatch ==
  /\ pattern \in Patterns
  /\ target \in Targets
  /\ matched = None
  /\ country = <<>> /\ perm = NoPermission /\ permitted = None
  /\ IdleDecision

CallMatchPath ==
  /\ matched = None
  /\ matched' = IF matchPath(pattern, target) THEN "true" ELSE "false"
  /\ UNCHANGED <<country, perm, permitted, pattern, target,
                 roleStore, token, claims, user, req, pc, verdict, examined,
                 status, handlerRan, body, endpoint, inflight>>

SpecMatch == InitMatch /\ [][CallMatchPath]_vars

-----------------------------------------------------------------------------
(* What the claims speak of, stated without the code's loops *)

SameLetter(a, b) ==
  \/ a = b
  \/ \E i \in 1..26 : {a, b} = {UpperCase[i], LowerCase[i]}

SameIgnoringCase(s, t) ==
  /\ Len(s) = Len(t)
  /\ \A i \in 1..Len(s) : SameLetter(s[i], t[i])

Colons(s) == {i \in 1..Len(s) : s[i] = ":"}
SegmentCount(s) == Cardinality(Colons(s)) + 1

\* position of the k-th colon of s; 0 before the first segment, Len(s) + 1
\* after the last
ColonAt(s, k) ==
  IF k = 0 THEN 0
  ELSE IF k > Cardinality(Colons(s)) THEN Len(s) + 1
  ELSE CHOOSE i \in Colons(s) : Cardinality({j \in Colons(s) : j <= i}) = k

Segment(s, k) == SubSeq(s, ColonAt(s, k - 1) + 1, ColonAt(s, k) - 1)

SegmentsMatch(pat, tgt) ==
  /\ SegmentCount(pat) = SegmentCount(tgt)
  /\ \A k \in 1..SegmentCount(pat) :
       \/ Segment(pat, k) = Star
       \/ SameIgnoringCase(Segment(pat, k), Segment(tgt, k))

\* c is listed in except_countries or lies in a registry region of except_regions
Excluded(c, p) ==
  \/ \E e \in Range(p.ExceptCountries) : SameIgnoringCase(e, c)
  \/ \E r \in Range(p.ExceptRegions) :
       /\ r \in DOMAIN regionMap
       /\ \/ r = "GLOBAL"
          \/ \E m \in Range(regionMap[r]) : SameIgnoringCase(m, c)

\* an exclusion of p applies to c, a `*` entry applying to every country
ExclusionHits(c, p) ==
  \/ Excluded(c, p)
  \/ Star \in Range(p.ExceptCountries)

\* c is an entry of the list, a `*` entry standing for every country
Member(c, list) ==
  \E e \in Range(list) : e = Star \/ SameIgnoringCase(e, c)

Grants(p, r) == matchPath(p.Path, r.Path) /\ isCountryPermitted(r.Country, p)
Vetoes(p, r) == \E x \in Range(p.ExceptPaths) : matchPath(x, r.Path)

\* the permissions of a principal in scan order
RECURSIVE Flatten(_)
Flatten(roles) ==
  IF roles = <<>> THEN <<>>
  ELSE Head(roles).Permissions \o Flatten(Tail(roles))

\* the scan over the permissions alone: the first deciding permission grants
ScanAllows(roles, r) ==
  LET ps == Flatten(roles)
  IN  \E k \in 1..Len(ps) :
        /\ Grants(ps[k], r)
        /\ \A m \in 1..k : ~Vetoes(ps[m], r)

-----------------------------------------------------------------------------
(* Claims *)

\* C7: matchPath(pattern, target) is true exactly when both have the same
\* number of colon-separated segments and every pattern segment is `*` or
\* equals the target segment ignoring letter case; a `*` in the target has
\* no special meaning.
C7_MatchPathExactly ==
  matched # None => (matched = "true" <=> SegmentsMatch(pattern, target))

\* a wildcard segment and a segment differing only in case match
C7_Witness ==
  /\ pattern = <<"*", ":", "A">>
  /\ target = <<"b", ":", "a">>
  /\ matched = "true"

\* C3: a country that perm.except_countries lists (ignoring case) or that a
\* registry region of perm.except_regions holds (GLOBAL holding all) is never
\* permitted, whatever perm.countries and perm.regions say.
C3_ExclusionWins ==
  (permitted # None /\ Excluded(country, perm)) => permitted = "false"

\* a permission that includes TH through ASIA and its own list and excludes it
C3_Witness ==
  /\ perm.Regions = <<"ASIA">>
  /\ perm.Countries = <<TH>>
  /\ perm.ExceptCountries = <<th>>
  /\ country = TH
  /\ permitted = "false"

\* C6: a permission with GLOBAL among its regions permits every country that
\* none of its exclusions applies to, also a code of no named region and the
\* value GLOBAL itself.
C6_UniversalRegion ==
  (/\ permitted # None
   /\ "GLOBAL" \in Range(perm.Regions)
   /\ ~ExclusionHits(country, perm)) => permitted = "true"

\* a code outside every named region, GLOBAL listed after another region
C6_Witness ==
  /\ perm.Regions = <<"ASIA", "GLOBAL">>
  /\ perm.ExceptRegions = <<"ASIA">>
  /\ country = ZZ
  /\ permitted = "true"

\* C2: IsAllowed returns allow only if some permission of some role matches
\* the requirement path and permits the requirement country; with no roles or
\* no permissions it denies.
C2_DefaultDeny ==
  verdict = "allow" =>
    \E i \in DOMAIN user.Roles : \E j \in DOMAIN user.Roles[i].Permissions :
      Grants(user.Roles[i].Permissions[j], req)

\* an allow that the second role's permission gives
C2_Witness ==
  /\ verdict = "allow"
  /\ Len(user.Roles) = 2
  /\ user.Roles[1].Permissions = <<>>
  /\ Len(user.Roles[2].Permissions) = 1

\* C1: whenever some permission of some role of the principal has an
\* except_paths entry matching the requirement path, IsAllowed denies, wherever
\* that permission stands in the scan order.
C1_VetoAnywhere ==
  (/\ verdict # None
   /\ \E i \in DOMAIN user.Roles : \E j \in DOMAIN user.Roles[i].Permissions :
        Vetoes(user.Roles[i].Permissions[j], req)) => verdict = "deny"

ReadmeRoles == <<[RoleID |-> "user", Permissions |-> <<readmePayroll>>]>>

\* C4: the principal whose only permission is {hr:payroll:view, regions [SEA],
\* except_countries [MM]} is allowed for {hr:payroll:view, TH}.
C4_SeaPayrollAllowsTH ==
  (/\ pc = "done"
   /\ roleStore = StoreOf(ReadmeRoles)
   /\ token = TokenOf(ReadmeRoles)
   /\ req = [Path |-> hr_payroll_view, Country |-> TH]) => verdict = "allow"

ThreeNonEmptySegments(path) ==
  /\ SegmentCount(path) = 3
  /\ \A k \in 1..3 : Segment(path, k) # <<>>

C8_NonMemberDenied ==
  (/\ pc = "done"
   /\ verdict # None
   /\ ~Member(req.Country, user.AllowedCountries)) => verdict = "deny"

\* GLOBAL is no member, passes the pre-check and is denied by the scan
C8_Witness ==
  /\ pc = "done"
  /\ req.Country = GLOBAL
  /\ user.Roles # <<>>
  /\ ~Member(GLOBAL, user.AllowedCountries)
  /\ examined > 0
  /\ verdict = "deny"

\* C9: for any *User, a requirement country that is a concrete code matched
\* by no AllowedCountries entry is denied before any permission is examined,
\* even when a permission matches the path and permits the country.
C9_PrecheckFirst ==
  (/\ pc = "returned"
   /\ req.Country \notin {GLOBAL, Star}
   /\ ~Member(req.Country, user.AllowedCountries)) =>
     (verdict = "deny" /\ examined = 0)

\* a permission would grant TH, the empty AllowedCountries denies first
C9_Witness ==
  /\ pc = "returned"
  /\ user.AllowedCountries = <<>>
  /\ Flatten(user.Roles) = <<seedPayroll>>
  /\ req = [Path |-> hr_payroll_view, Country |-> TH]
  /\ Grants(seedPayroll, req)
  /\ verdict = "deny"
  /\ examined = 0

-----------------------------------------------------------------------------
(* The profile builder *)

\* extractUser has returned a *User for the request
UserBuilt == pc = "check" \/ (pc = "done" /\ verdict # None)

\* what one region name of a regions list stands for in the country set
RegionContribution(r) ==
  IF r \in {"GLOBAL", "*"} THEN {Star}
  ELSE IF r \in DOMAIN regionMap THEN Range(regionMap[r])
  ELSE {}

\* the countries the regions and countries fields of the permissions name
CountryUnion(perms) ==
  UNION {Range(perms[j].Countries)
           \cup UNION {RegionContribution(r) : r \in Range(perms[j].Regions)}
         : j \in 1..Len(perms)}

\* C11: the AllowedCountries the builder returns is, without duplicates,
\* exactly the union over every permission of every role of its countries
\* entries, the members of its registry regions and `*` for each universal
\* region; except_countries, except_regions and except_paths do not enter.
C11_BuilderIsUnion ==
  UserBuilt =>
    /\ Range(user.AllowedCountries) = CountryUnion(Flatten(user.Roles))
    /\ Len(user.AllowedCountries) = Cardinality(Range(user.AllowedCountries))

\* TH named by a registry region and by a countries entry is held once, and
\* MM, which the permission naming ASIA excepts, is held all the same
C11_Witness ==
  /\ UserBuilt
  /\ \E i \in 1..Len(Flatten(user.Roles)) : Flatten(user.Roles)[i] = asiaPayroll
  /\ \E i \in 1..Len(Flatten(user.Roles)) : Flatten(user.Roles)[i] = viewTH
  /\ MM \in Range(user.AllowedCountries)
  /\ Cardinality({i \in 1..Len(user.AllowedCountries) :
                    user.AllowedCountries[i] = TH}) = 1

-----------------------------------------------------------------------------
(* requirePermission failing closed *)

\* the role identifiers the token of the request claims
ClaimedRoleIDs ==
  IF ~parseToken(token).err /\ token.claims.hasRoles
  THEN stringRoleIDs(token.claims.roles, 1)
  ELSE <<>>

\* a claimed role identifier the roles collection does not resolve
Unresolvable == \E id \in Range(ClaimedRoleIDs) : ~roleStore[id].found

\* the claimed roles the collection does resolve, as role documents
ResolvedRoles ==
  LET ids == SelectSeq(ClaimedRoleIDs, LAMBDA id : roleStore[id].found)
  IN  [i \in 1..Len(ids) |->
         [RoleID |-> ids[i], Permissions |-> roleStore[ids[i]].Permissions]]

\* C12: when a role identifier claimed in the token is not resolved to a role
\* document, no profile is built, IsAllowed is never evaluated, the handler
\* never runs and the response is 403, also when the resolved roles of the
\* token would grant the requirement.
C12_FailClosed ==
  Unresolvable =>
    /\ user = NoUser
    /\ verdict = None
    /\ ~handlerRan
    /\ pc = "done" => status = StatusForbidden

\* denied although the resolved role of the token grants the requirement
C12_Witness ==
  /\ pc = "done"
  /\ Unresolvable
  /\ ScanAllows(ResolvedRoles, req)
  /\ status = StatusForbidden

\* the role documents of the profile are those of the claimed identifiers,
\* one for each identifier string and in the order of the claim
BuiltFromEveryClaimedRole ==
  /\ Len(user.Roles) = Len(ClaimedRoleIDs)
  /\ \A i \in 1..Len(user.Roles) :
       /\ user.Roles[i].RoleID = ClaimedRoleIDs[i]
       /\ roleStore[ClaimedRoleIDs[i]].found
       /\ user.Roles[i].Permissions = roleStore[ClaimedRoleIDs[i]].Permissions

\* C13: the protected handler runs only after the token was parsed, a
\* profile was built from every role identifier string of the claim and
\* IsAllowed returned true for the route's requirement; a request that ends
\* otherwise ends with status 401 or 403 and the handler not run.
C13_NoPassThrough ==
  /\ handlerRan =>
       /\ ~parseToken(token).err
       /\ token.claims.hasUsername /\ token.claims.hasRoles
       /\ BuiltFromEveryClaimedRole
       /\ ScanAllows(user.Roles, req)
       /\ (Member(req.Country, user.AllowedCountries) \/ req.Country = GLOBAL)
       /\ verdict = "allow"
       /\ status = StatusOK
  /\ (pc = "done" /\ ~handlerRan) =>
       status \in {StatusUnauthorized, StatusForbidden}

\* the handler ran for a token whose roles claim holds an entry that is no
\* string beside a role identifier
C13_Witness ==
  /\ handlerRan
  /\ pc = "done"
  /\ Len(token.claims.roles) > Len(user.Roles)
  /\ Len(user.Roles) >= 1

-----------------------------------------------------------------------------
(* Region names *)

\* the other name of a universal region; any other name is kept
OtherUniversalName(r) ==
  IF r = "GLOBAL" THEN "*" ELSE IF r = "*" THEN "GLOBAL" ELSE r

\* p with GLOBAL and `*` exchanged in regions and in except_regions
ExchangeUniversal(p) ==
  [p EXCEPT !.Regions = [i \in 1..Len(p.Regions) |-> OtherUniversalName(p.Regions[i])],
            !.ExceptRegions = [i \in 1..Len(p.ExceptRegions) |->
                                 OtherUniversalName(p.ExceptRegions[i])]]

\* C14 as claimed: exchanging GLOBAL and `*` in the regions and
\* except_regions of a permission changes neither what isCountryPermitted
\* returns for any country nor what the permission adds to AllowedCountries.
C14_UniversalNamesInterchangeable ==
  permitted # None =>
    /\ (permitted = "true") <=> isCountryPermitted(country, ExchangeUniversal(perm))
    /\ addPermissions({}, <<perm>>, 1) = addPermissions({}, <<ExchangeUniversal(perm)>>, 1)

\* a name that is neither a key of regionMap nor the wildcard `*`
UnknownRegion(r) == r \notin DOMAIN regionMap /\ r # "*"

\* p without the unknown names of its regions and except_regions
WithoutUnknownRegions(p) ==
  [p EXCEPT !.Regions = SelectSeq(p.Regions, LAMBDA r : ~UnknownRegion(r)),
            !.ExceptRegions = SelectSeq(p.ExceptRegions, LAMBDA r : ~UnknownRegion(r))]

\* C15: a region name that regionMap does not hold grants no country,
\* excludes no country and adds no country to AllowedCountries: the call
\* returns, and the builder adds, what they do for the permission without
\* the unknown names; in particular the call always returns a result.
C15_UnknownRegionIsInert ==
  permitted # None =>
    /\ (permitted = "true") <=>
         isCountryPermitted(country, WithoutUnknownRegions(perm))
    /\ addPermissions({}, <<perm>>, 1)
         = addPermissions({}, <<WithoutUnknownRegions(perm)>>, 1)
    /\ (\A i \in 1..Len(perm.Regions) : UnknownRegion(perm.Regions[i])) =>
         /\ addRegions({}, perm.Regions, 1) = {}
         /\ permitted = "true" => Member(country, perm.Countries)

\* TH permitted through ASIA with the unknown SEA named in regions and in
\* except_regions
C15_Witness ==
  /\ permitted = "true"
  /\ country = TH
  /\ perm.Regions = <<"SEA", "ASIA">>
  /\ perm.ExceptRegions = <<"SEA">>
  /\ perm.Countries = <<>>

-----------------------------------------------------------------------------
(* The response to a denied request *)

\* C16 as claimed: the response to a request IsAllowed denied names the path
\* of the route's requirement and holds no detail of the principal's roles.
C16_DenyNamesPath ==
  (pc = "done" /\ verdict = "deny") =>
    /\ status = StatusForbidden
    /\ body.path = req.Path
    /\ body.roleID = ""

-----------------------------------------------------------------------------
(* The gateway in front of the routes *)

\* C17: a request to the gateway endpoint /payroll whose token claims the
\* role admin and no other is answered 403, and the handler of
\* /user/payroll does not run.
C17_AdminDeniedAtPayroll ==
  (endpoint.endpoint = "/payroll" /\ ClaimedRoleIDs = <<"admin">>) =>
    /\ ~handlerRan
    /\ pc = "done" => status = StatusForbidden

\* the admin token answered 403 at /payroll, the gateway having forwarded
\* nothing to the backend
C17_Witness ==
  /\ pc = "done"
  /\ endpoint.endpoint = "/payroll"
  /\ ClaimedRoleIDs = <<"admin">>
  /\ token.claims.roles = <<StringEntry("admin")>>
  /\ status = StatusForbidden
  /\ req.Path = <<>>

-----------------------------------------------------------------------------
(* Grants by country list, end to end *)

\* no permission of the principal carries except_paths
NoExceptPaths(roles) ==
  \A k \in 1..Len(Flatten(roles)) : Flatten(roles)[k].ExceptPaths = <<>>

\* p matches the path of r and lists the country of r, no exclusion of p
\* applying to it
GrantsByCountryList(p, r) ==
  /\ SegmentsMatch(p.Path, r.Path)
  /\ \E e \in Range(p.Countries) : SameIgnoringCase(e, r.Country)
  /\ ~ExclusionHits(r.Country, p)

\* C18: when a permission of a claimed role matches the requirement path and
\* lists the requirement country in countries, no exclusion of it applies to
\* that country and no permission of the principal has except_paths, the
\* request whose profile was built from the token is allowed.
C18_CountryListGrantEffective ==
  (pc = "done" /\ UserBuilt /\ NoExceptPaths(user.Roles)
     /\ \E k \in 1..Len(Flatten(user.Roles)) :
          GrantsByCountryList(Flatten(user.Roles)[k], req)) =>
    /\ verdict = "allow"
    /\ handlerRan

\* the seeded user role allowed at /user/payroll through countries [TH]
C18_Witness ==
  /\ pc = "done"
  /\ roleStore = StoreOf(SeedRoles)
  /\ ClaimedRoleIDs = <<"user">>
  /\ req = RouteTable["/user/payroll"]
  /\ GrantsByCountryList(seedPayroll, req)
  /\ verdict = "allow"

-----------------------------------------------------------------------------
(* IsAllowed and what it is given *)

-----------------------------------------------------------------------------
(* Requests served side by side do not meet *)

\* how requirePermission(rq) ends for the token when it is the only request
RunAlone(tok, store, rq) ==
  IF parseToken(tok).err
  THEN [status |-> StatusUnauthorized, verdict |-> None, handlerRan |-> FALSE,
        user |-> NoUser]
  ELSE LET e == extractUser(tok.claims, store)
       IN  IF e.err
           THEN [status |-> StatusForbidden, verdict |-> None,
                 handlerRan |-> FALSE, user |-> NoUser]
           ELSE IF IsAllowed(e.user, rq)
                THEN [status |-> StatusOK, verdict |-> "allow",
                      handlerRan |-> TRUE, user |-> e.user]
           ELSE [status |-> StatusForbidden, verdict |-> "deny",
                 handlerRan |-> FALSE, user |-> e.user]

Outcome(rq) ==
  [status |-> rq.status, verdict |-> rq.verdict, handlerRan |-> rq.handlerRan,
   user |-> rq.user]

\* C20: under every interleaving of the steps of the requests served side by
\* side, a request that has ended has the status, the verdict and the
\* profile it has when it runs alone on its token, the roles collection and
\* its requirement, and the handler has run for no request that alone is
\* refused.
C20_NoInterference ==
  \A r \in DOMAIN inflight :
    /\ inflight[r].pc = "done" =>
         Outcome(inflight[r])
           = RunAlone(inflight[r].token, roleStore, inflight[r].req)
    /\ inflight[r].handlerRan =>
         RunAlone(inflight[r].token, roleStore, inflight[r].req).handlerRan

\* two requests for one route that have ended differently, one of them after
\* two role lookups
C20_Witness ==
  /\ DOMAIN inflight = Requests
  /\ \A r \in Requests : inflight[r].pc = "done"
  /\ inflight["r1"].verdict = "allow"
  /\ inflight["r2"].verdict = "deny"
  /\ inflight["r1"].req = inflight["r2"].req
  /\ Len(inflight["r1"].roles) = 2

-----------------------------------------------------------------------------
(* Letter case of the request *)

UpperOf(ch) ==
  IF \E i \in 1..26 : LowerCase[i] = ch
  THEN UpperCase[CHOOSE i \in 1..26 : LowerCase[i] = ch]
  ELSE ch

AllUpper(s) == [i \in 1..Len(s) |-> UpperOf(s[i])]
AllLower(s) == [i \in 1..Len(s) |-> ToLower(s[i])]

\* s with the letters of its first segment in the other case
FirstSegmentFlipped(s) ==
  [i \in 1..Len(s) |->
     IF i < ColonAt(s, 1)
     THEN (IF UpperOf(s[i]) = s[i] THEN ToLower(s[i]) ELSE UpperOf(s[i]))
     ELSE s[i]]

\* requirements that differ from r in letter case only: in the path, in the
\* country code, in both
CaseVariants(r) ==
  {[Path |-> AllUpper(r.Path), Country |-> r.Country],
   [Path |-> FirstSegmentFlipped(r.Path), Country |-> AllUpper(r.Country)],
   [Path |-> AllLower(r.Path), Country |-> AllLower(r.Country)],
   [Path |-> AllUpper(r.Path), Country |-> AllLower(r.Country)]}

\* C21: for a profile the builder made, IsAllowed returns for every
\* requirement that differs from the request's in the letter case of its
\* path segments or of its country code the verdict it returned for the
\* request.
C21_CaseOfRequestIrrelevant ==
  (pc = "done" /\ UserBuilt) =>
    \A r \in CaseVariants(req) : (verdict = "allow") <=> IsAllowed(user, r)

\* allowed for hr:payroll:view / TH, whose variants in other letter case
\* are requirements of their own
C21_Witness ==
  /\ pc = "done"
  /\ verdict = "allow"
  /\ req = [Path |-> hr_payroll_view, Country |-> TH]
  /\ [Path |-> AllUpper(hr_payroll_view), Country |-> th] \in CaseVariants(req)
  /\ Cardinality(CaseVariants(req)) = 4

-----------------------------------------------------------------------------
(* The order of the scan *)

\* the pre-check of IsAllowed lets the requirement through
PrecheckPasses(u, r) == Member(r.Country, u.AllowedCountries) \/ r.Country = GLOBAL

\* C22: IsAllowed returns allow exactly when the pre-check passes and some
\* permission, in the order of the roles and of the permissions inside each
\* role, matches the path and permits the country while neither it nor any
\* permission before it has an except_paths entry matching the requirement
\* path; an except_paths entry of a later permission takes nothing back.
C22_FirstDecisiveWins ==
  pc = "returned" =>
    ((verdict = "allow") <=>
       (PrecheckPasses(user, req) /\ ScanAllows(user.Roles, req)))

\* allowed by the first permission, the second one vetoing the path
C22_Witness ==
  /\ pc = "returned"
  /\ verdict = "allow"
  /\ Len(Flatten(user.Roles)) = 2
  /\ Grants(Flatten(user.Roles)[1], req)
  /\ Vetoes(Flatten(user.Roles)[2], req)

\* C23: when a permission of the principal excludes the requirement country
\* by except_countries or except_regions and another of its permissions
\* matches the path and permits the country, with no except_paths entry
\* matching in that one or in any permission scanned before it, the request
\* is allowed: the exclusion counts for its own permission only.
C23_ExclusionsAreLocal ==
  (pc = "done" /\ UserBuilt
     /\ \E i \in 1..Len(Flatten(user.Roles)) :
          ExclusionHits(req.Country, Flatten(user.Roles)[i])
     /\ ScanAllows(user.Roles, req)) =>
    verdict = "allow"

\* TH, which the first permission excludes with its region, allowed by the
\* second
C23_Witness ==
  /\ pc = "done"
  /\ verdict = "allow"
  /\ req = [Path |-> hr_payroll_view, Country |-> TH]
  /\ Flatten(user.Roles) = <<notAsia, asiaPayroll>>
  /\ Excluded(TH, notAsia)
  /\ SegmentsMatch(notAsia.Path, req.Path)

\* the orders in which 1..n can be listed, for the lengths a list of roles
\* or of permissions has
IndexOrders ==
  [n \in 0..(MaxTotalPerms + Len(RoleIDs)) |->
     {f \in [1..n -> 1..n] : \A i, j \in 1..n : f[i] = f[j] => i = j}]

Reorderings(s) == {[i \in 1..Len(s) |-> s[f[i]]] : f \in IndexOrders[Len(s)]}

\* the role with its permissions in any order
RoleReorderings(role) ==
  {[RoleID |-> role.RoleID, Permissions |-> ps] : ps \in Reorderings(role.Permissions)}

\* the roles in the order given, each with its permissions in any order
RECURSIVE EachRoleReordered(_)
EachRoleReordered(roles) ==
  IF roles = <<>> THEN {<<>>}
  ELSE {<<first>> \o rest : first \in RoleReorderings(Head(roles)),
                            rest \in EachRoleReordered(Tail(roles))}

\* the roles in any order, each with its permissions in any order
PrincipalReorderings(roles) ==
  UNION {EachRoleReordered(o) : o \in Reorderings(roles)}

\* the *User extractUser returns for a token claiming the roles, in their
\* order, against a collection that holds them
ProfileOf(roles) == extractUser(TokenOf(roles).claims, StoreOf(roles)).user

\* C24: for a principal no permission of which has except_paths, IsAllowed
\* on the profile built from the roles in any other order, with the
\* permissions of each role in any other order, returns the verdict of the
\* request.
C24_OrderIrrelevantWithoutVetoes ==
  (pc = "done" /\ UserBuilt /\ NoExceptPaths(user.Roles)) =>
    \A rs \in PrincipalReorderings(user.Roles) :
      (verdict = "allow") <=> IsAllowed(ProfileOf(rs), req)

\* allowed by the second role, the first holding a permission that does not
\* grant
C24_Witness ==
  /\ pc = "done"
  /\ verdict = "allow"
  /\ NoExceptPaths(user.Roles)
  /\ Len(user.Roles) = 2
  /\ ~ScanAllows(<<user.Roles[1]>>, req)
  /\ user.Roles[1].Permissions # <<>>
  /\ Cardinality(PrincipalReorderings(user.Roles)) = 2

-----------------------------------------------------------------------------
(* The pre-check on profiles the builder made *)

\* C25: for a profile extractUser built, IsAllowed returns what the scan
\* over the permissions returns without any pre-check; the pre-check
\* turns no allow of the scan into a deny.
C25_PrecheckRedundant ==
  (pc = "done" /\ UserBuilt) =>
    /\ (verdict = "allow") <=> ScanAllows(user.Roles, req)
    /\ ScanAllows(user.Roles, req) => PrecheckPasses(user, req)

\* allowed for TH, which only a region of the permission names and which
\* the builder put into AllowedCountries for the pre-check to find
C25_Witness ==
  /\ pc = "done"
  /\ UserBuilt
  /\ verdict = "allow"
  /\ req.Country = TH
  /\ Flatten(user.Roles) = <<asiaPayroll>>
  /\ ScanAllows(user.Roles, req)
  /\ Star \notin Range(user.AllowedCountries)

-----------------------------------------------------------------------------
(* The profile and the role documents it was built from *)

\* C26: while the roles collection is written between the lookups of a
\* request, the country set of the request is at every step the builder's
\* union over the role documents read so far, the profile extractUser
\* returns holds that union over the documents of its Roles list, and the
\* verdict is the one IsAllowed gives for the profile of exactly those
\* documents, whatever the collection holds by then.
C26_ProfileMatchesItsRoles ==
  \A r \in DOMAIN inflight :
    /\ inflight[r].countrySet = CountryUnion(Flatten(inflight[r].roles))
    /\ inflight[r].user # NoUser =>
         /\ inflight[r].user.Roles = inflight[r].roles
         /\ Range(inflight[r].user.AllowedCountries)
              = CountryUnion(Flatten(inflight[r].user.Roles))
    /\ inflight[r].verdict # None =>
         ((inflight[r].verdict = "allow")
            <=> IsAllowed(ProfileOf(inflight[r].user.Roles), inflight[r].req))

\* a request decided on two role documents of which the collection no
\* longer holds the first as it was read
C26_Witness ==
  /\ inflight["r1"].pc = "done"
  /\ inflight["r1"].verdict = "allow"
  /\ Len(inflight["r1"].user.Roles) = 2
  /\ roleStore[inflight["r1"].user.Roles[1].RoleID].Permissions
       # inflight["r1"].user.Roles[1].Permissions
  /\ inflight["r1"].user.Roles[2].Permissions
       # StoreOf(SeedRoles)[inflight["r1"].user.Roles[2].RoleID].Permissions

-----------------------------------------------------------------------------
(* A further role *)

\* the role documents that can be appended, under an identifier no
\* principal holds yet
FurtherRoles ==
  {[RoleID |-> id, Permissions |-> ps] :
     id \in RoleIDSet \ Range(RoleIDs),
     ps \in {<<>>} \cup {<<p>> : p \in PermCatalog}
                   \cup {<<vetoPayroll, p>> : p \in {seedAdmin, viewTH}}}

\* C27: when the request is allowed, IsAllowed also allows the requirement
\* for the profile built from the same roles followed by one more role,
\* whatever that role holds, except_paths included.
C27_AppendingNeverRevokes ==
  (pc = "done" /\ verdict = "allow") =>
    \A role \in FurtherRoles :
      IsAllowed(ProfileOf(Append(user.Roles, role)), req)

\* allowed with two roles, with roles left to append that veto the path
C27_Witness ==
  /\ pc = "done"
  /\ verdict = "allow"
  /\ Len(user.Roles) = 2
  /\ \E role \in FurtherRoles :
       /\ \E k \in 1..Len(role.Permissions) : Vetoes(role.Permissions[k], req)
       /\ ~ScanAllows(<<role>>, req)

-----------------------------------------------------------------------------
(* Requirements for the country GLOBAL *)

\* p names a universal region, or lists `*` or GLOBAL (in any letter case,
\* as contains compares) among its countries
Unrestricted(p) ==
  \/ \E i \in 1..Len(p.Regions) : p.Regions[i] \in {"GLOBAL", "*"}
  \/ Member(GLOBAL, p.Countries)

\* the regions of regionMap that list countries
NamedRegions == <<"AFRICA", "ASIA", "EUROPE", "NORTH_AMERICA", "SOUTH_AMERICA",
                  "OCEANIA", "ANTARCTICA">>

\* a permission for the path that names every such region and lists
\* country codes
EveryNamedRegion(path) == Permission(path, NamedRegions, <<TH, MM, US>>, <<>>, <<>>, <<>>)

\* C28: IsAllowed allows a requirement for the country GLOBAL only if a
\* permission that matches the path, with no except_paths match in it or
\* before it, is unrestricted; a principal whose permission names every
\* region that lists countries, and country codes, is denied.
C28_GlobalNeedsUnrestricted ==
  (pc = "returned" /\ req.Country = GLOBAL) =>
    /\ verdict = "allow" =>
         \E k \in 1..Len(Flatten(user.Roles)) :
           /\ SegmentsMatch(Flatten(user.Roles)[k].Path, req.Path)
           /\ Unrestricted(Flatten(user.Roles)[k])
           /\ \A m \in 1..k : ~Vetoes(Flatten(user.Roles)[m], req)
    /\ ~IsAllowed([user EXCEPT !.Roles = <<[RoleID |-> "user",
                                           Permissions |-> <<EveryNamedRegion(req.Path)>>]>>],
                  req)

\* a GLOBAL requirement denied to a principal whose permission matches the
\* path and names a region that lists countries
C28_Witness ==
  /\ pc = "returned"
  /\ req.Country = GLOBAL
  /\ verdict = "deny"
  /\ examined = 1
  /\ Flatten(user.Roles) = <<asiaPayroll>>
  /\ SegmentsMatch(asiaPayroll.Path, req.Path)

-----------------------------------------------------------------------------
(* Letter case of region names *)

\* spellings that differ from a key of regionMap in letter case only
MiscasedRegionNames ==
  {"africa", "asia", "europe", "north_america", "south_america", "oceania",
   "antarctica", "global", "Asia", "Global"}

WithoutMiscasedRegions(p) ==
  [p EXCEPT !.Regions = SelectSeq(p.Regions, LAMBDA r : r \notin MiscasedRegionNames),
            !.ExceptRegions = SelectSeq(p.ExceptRegions,
                                        LAMBDA r : r \notin MiscasedRegionNames)]

\* C29: a region name that differs from a key of regionMap, GLOBAL among
\* them, in letter case only is no region at all: in regions it grants no
\* country and adds nothing to AllowedCountries, in except_regions it
\* excludes no country.
C29_RegionNamesAreExact ==
  permitted # None =>
    /\ (permitted = "true") <=>
         isCountryPermitted(country, WithoutMiscasedRegions(perm))
    /\ addPermissions({}, <<perm>>, 1)
         = addPermissions({}, <<WithoutMiscasedRegions(perm)>>, 1)
    /\ (perm.Regions # <<>> /\ perm.Countries = <<>>
          /\ \A i \in 1..Len(perm.Regions) : perm.Regions[i] \in MiscasedRegionNames) =>
         /\ permitted = "false"
         /\ addPermissions({}, <<perm>>, 1) = {}

\* TH permitted through GLOBAL although except_regions names asia
C29_Witness ==
  /\ permitted = "true"
  /\ country = TH
  /\ perm.Regions = <<"GLOBAL">>
  /\ perm.ExceptRegions = <<"asia">>
  /\ perm.Countries = <<>>
  /\ perm.ExceptCountries = <<>>

-----------------------------------------------------------------------------
(* The entry `*` of a country list *)

\* C30: contains is true for every target when the list holds `*`; so a
\* permission with `*` in countries permits every country that none of its
\* exclusions applies to, and a permission with `*` in except_countries
\* permits no country, whatever its countries and regions hold.
C30_StarEntryMatchesAll ==
  permitted # None =>
    /\ \A list \in {perm.Countries, perm.ExceptCountries} :
         Star \in Range(list) => \A c \in CountryArgs : contains(list, c)
    /\ (Star \in Range(perm.Countries) /\ ~ExclusionHits(country, perm)) =>
         permitted = "true"
    /\ Star \in Range(perm.ExceptCountries) => permitted = "false"

\* a code of no region permitted by `*` in countries, no region being named
C30_Witness ==
  /\ permitted = "true"
  /\ country = ZZ
  /\ perm.Countries = <<Star>>
  /\ perm.Regions = <<>>
  /\ perm.ExceptCountries = <<MM>>

====
